---- MODULE Spec2Model ----
(***************************************************************************)
(* The StyleHub storefront backend.  The repository holds two iterations   *)
(* of the same Express server:                                             *)
(*   "server"  - src/server.js: every route goes to the document store     *)
(*               (mongoose); orders and contacts are persisted.            *)
(*   "part000" - src/unnamed/part_000: products fall back to in-memory     *)
(*               sample data; orders and contacts are only acknowledged.   *)
(* variant says which of the two files the process runs.  The document     *)
(* store is the environment: a call to it executes only while the          *)
(* connection is up (mongoose buffers it otherwise, until it times out),   *)
(* and any call may fail.                                                  *)
(***************************************************************************)
EXTENDS Integers, Sequences, FiniteSets, TLC

VARIABLES variant, nodeEnv, running, connected, clock, nextOid, products, orders, contacts,
          listResp, itemResp, seedReq, orderReq, ordersResp, contactResp

vars == <<variant, nodeEnv, running, connected, clock, nextOid, products, orders, contacts,
          listResp, itemResp, seedReq, orderReq, ordersResp, contactResp>>

Variants == {"server", "part000"}

\* process.env.NODE_ENV: 'production', or anything else
NodeEnvs == {"production", "development"}

(* ------------------------------ bounds -------------------------------- *)
\* first value of Date.now() in a run and the last one the model lets it reach
Clock0 == 9
MaxClock == 10
\* concurrent POST /api/seed-products requests
MaxSeedReqs == 2
\* POST /api/orders requests of a run
MaxOrderReqs == 2

(* ------------------------------ ids ----------------------------------- *)
\* An id is a string.  t = "oid": a well-formed ObjectId (the n-th one);
\* t = "str": the literal text of n ("1", "2", ...), which is no ObjectId.
Oid(n) == [t |-> "oid", n |-> n]
StrId(n) == [t |-> "str", n |-> n]
IsObjectId(id) == id.t = "oid"

(* --------------------------- product data ------------------------------ *)
\* prices in cents, ratings in tenths
Doc(id, name, price, category, gender, rating, createdAt) ==
  [_id |-> id, name |-> name, price |-> price, category |-> category,
   gender |-> gender, rating |-> rating, createdAt |-> createdAt]

\* POST /api/seed-products: const sampleProducts (no _id, no createdAt yet)
seedSampleProducts ==
  << [name |-> "Men's Premium Blazer", price |-> 8999,
      category |-> "Men's Fashion", gender |-> "men", rating |-> 48],
     [name |-> "Women's Summer Dress", price |-> 5999,
      category |-> "Women's Fashion", gender |-> "women", rating |-> 46],
     [name |-> "Men's Running Shoes", price |-> 7999,
      category |-> "Men's Footwear", gender |-> "men", rating |-> 45],
     [name |-> "Women's Designer Handbag", price |-> 6999,
      category |-> "Women's Accessories", gender |-> "women", rating |-> 49] >>

\* GET /api/products (part_000): const sampleProducts, ids "1".."6"
listSampleProducts ==
  << Doc(StrId(1), "Men's Premium Blazer", 8999, "Men's Fashion", "men", 48, 0),
     Doc(StrId(2), "Women's Summer Dress", 5999, "Women's Fashion", "women", 46, 0),
     Doc(StrId(3), "Men's Running Shoes", 7999, "Men's Footwear", "men", 45, 0),
     Doc(StrId(4), "Women's Designer Handbag", 6999, "Women's Accessories", "women", 49, 0),
     Doc(StrId(5), "Men's Casual T-Shirt", 2499, "Men's Casual", "men", 43, 0),
     Doc(StrId(6), "Women's Elegant Skirt", 4599, "Women's Fashion", "women", 47, 0) >>

\* GET /api/products/:id (part_000): const sampleProducts, ids "1" and "2"
itemSampleProducts ==
  << Doc(StrId(1), "Men's Premium Blazer", 8999, "Men's Fashion", "men", 48, 0),
     Doc(StrId(2), "Women's Summer Dress", 5999, "Women's Fashion", "women", 46, 0) >>

\* A product some earlier run left in the store (POST /api/products of
\* another iteration): same price as the built-in dress.
LegacyProduct ==
  Doc(Oid(0), "Legacy Cap", 5999, "Unisex Accessories", "unisex", 0, 0)

Range(s) == {s[i] : i \in 1..Len(s)}

\* Product.insertMany(list): one document per entry, fresh ObjectIds from
\* `from` on, timestamps: true stamps createdAt.
InsertedDocs(list, from, now) ==
  [i \in 1..Len(list) |->
     Doc(Oid(from + i - 1), list[i].name, list[i].price, list[i].category,
         list[i].gender, list[i].rating, now)]

\* The store contents a process can find at start-up: nothing, a product of
\* an earlier run, or the result of an earlier seed.
InitialCatalogs ==
  { {}, {LegacyProduct},
    Range(InsertedDocs(seedSampleProducts, 1, 1)),
    Range(InsertedDocs(seedSampleProducts, 1, 1)) \cup {LegacyProduct} }

(* ------------------------- query parameters ---------------------------- *)
\* "" is the absent parameter (and the empty one: both are falsy)
CategoryParams == {"", "women"}
GenderParams == {"", "men"}
SearchParams == {"", "dress"}
SortParams == {"", "price_asc", "price_desc", "rating"}
LimitParams == {"", "1", "2"}

\* the requests of the model: at most one of the three filters is given
Queries ==
  {q \in [category : CategoryParams, gender : GenderParams, search : SearchParams,
          sort : SortParams, limit : LimitParams] :
     Cardinality({f \in {"category", "gender", "search"} : q[f] # ""}) <= 1}

\* new RegExp(pattern, 'i').test(text) on the patterns and texts of the model:
\* a case-insensitive substring test.
RegExpTestI(pattern, text) ==
  \/ /\ pattern = "women"
     /\ text \in {"Women's Fashion", "Women's Accessories",
                  "Women's Summer Dress", "Women's Designer Handbag",
                  "Women's Elegant Skirt"}
  \/ /\ pattern = "dress"
     /\ text \in {"Women's Summer Dress"}

\* parseInt(limit) on the numerals of the model
ParseInt(s) == CASE s = "0" -> 0 [] s = "1" -> 1 [] s = "2" -> 2 [] s = "3" -> 3

\* the filter object built from req.query, applied to one document
MatchesQuery(d, q) ==
  /\ q.category # "" => RegExpTestI(q.category, d.category)
  /\ q.gender # "" => d.gender = q.gender
  /\ q.search # "" => RegExpTestI(q.search, d.name)

\* sortOption: the field and the direction (1 ascending, -1 descending)
SortField(sort) ==
  CASE sort = "price_asc" -> "price"
    [] sort = "price_desc" -> "price"
    [] sort = "newest" -> "createdAt"
    [] sort = "rating" -> "rating"
    [] OTHER -> "createdAt"

SortDir(sort) == IF sort = "price_asc" THEN 1 ELSE -1

\* productsLimit = limit ? parseInt(limit) : 0
ProductsLimit(limit) == IF limit # "" THEN ParseInt(limit) ELSE 0

\* .sort({f: dir}): every order of S that is monotone in f; the store
\* leaves the order of documents with equal keys open.
RECURSIVE SortedSeqs(_, _, _)
SortedSeqs(S, f, dir) ==
  IF S = {} THEN {<<>>}
  ELSE UNION { { <<d>> \o s : s \in SortedSeqs(S \ {d}, f, dir) } :
               d \in {x \in S : \A y \in S : dir * x[f] <= dir * y[f]} }

\* .limit(n): 0 is "no limit"
Limited(s, n) == IF n = 0 \/ n >= Len(s) THEN s ELSE SubSeq(s, 1, n)

\* Product.find() without a sort: documents in insertion order (the order
\* of their ObjectIds)
RECURSIVE NaturalOrder(_)
NaturalOrder(S) ==
  IF S = {} THEN <<>>
  ELSE LET d == CHOOSE x \in S : \A y \in S : x._id.n <= y._id.n
       IN <<d>> \o NaturalOrder(S \ {d})

(* ------------------------------ responses ------------------------------ *)
NoQuery == [category |-> "", gender |-> "", search |-> "", sort |-> "", limit |-> ""]

\* Why a store call did not return a result:
\*   "timeout" - no connection: mongoose buffered the call until it timed out
\*   "cast"    - the id is no ObjectId: findById throws a CastError
\*   "store"   - the store failed while connected
\*   "none"    - the call returned
Faults == {"none", "timeout", "cast", "store"}

\* the faults that are failures of a store call
StoreFaults == {"timeout", "cast", "store", "duplicate"}

\* error.message of the error a failed call throws; NoText: no such property
NoText == ""
ErrorMessage(f) ==
  CASE f = "timeout" -> "Operation buffering timed out"
    [] f = "cast" -> "Cast to ObjectId failed"
    [] f = "store" -> "connection closed"
    [] f = "duplicate" -> "E11000 duplicate key error"
    [] f = "validation" -> "Order validation failed"
    [] f = "parse" -> "Unexpected token in JSON"
    [] OTHER -> NoText

\* The awaited store calls that stand inside the try block of their
\* handler (every one of them, in both files).  A rejection of such a call
\* lands in the handler's catch block; a rejection outside a try block
\* would be unhandled: no response is sent and the process ends.
AwaitsInTryButPopulate ==
  {"Product.find", "Product.findById", "Product.deleteMany", "Product.insertMany",
   "order.save", "Order.find", "Order.findById", "contact.save"}
AwaitsInTry ==
  {"Product.find", "Product.findById", "Product.deleteMany", "Product.insertMany",
   "order.save", "savedOrder.populate", "Order.find", "Order.findById",
   "contact.save"}

\* what a rejected await leads to: the catch block's response, or none
Rejected(site, caught, unhandled) ==
  IF site \in AwaitsInTry THEN caught ELSE unhandled

\* A request whose awaited call rejected outside every try block: it has a
\* fault and no response.
Unhandled(rec) == rec.fault # "none" /\ rec.responses = 0

\* running: the process serves requests.  It does as long as no rejection
\* went unhandled (an unhandled rejection ends a Node process): every step
\* of a handler leaves running' = ~Unhandled(the request it worked on).

\* the catch blocks: error: error.message, whatever NODE_ENV is
CatchError(f) == ErrorMessage(f)

\* the global error handler of server.js:
\* error: process.env.NODE_ENV === 'production' ? {} : err.message
GlobalError(f) == IF nodeEnv = "production" THEN NoText ELSE ErrorMessage(f)

\* the message property of the envelope a route sends with a status
\* (NoText: the envelope has none)
Message(route, status) ==
  IF variant = "server"
  THEN CASE route = "products" /\ status = 500 -> "Server error"
         [] route = "product" /\ status = 404 -> "Product not found"
         [] route = "product" /\ status = 500 -> "Server error"
         [] route = "order" /\ status = 201 -> "Order created successfully"
         [] route = "order" /\ status = 400 -> "Bad request"
         [] route = "orders" /\ status = 500 -> "Server error"
         [] route = "orders" /\ status = 404 -> "Order not found"
         [] route = "contact" /\ status = 400 -> "Missing required fields"
         [] route = "contact" /\ status = 200 -> "Message received successfully. We'll get back to you soon!"
         [] route = "contact" /\ status = 500 -> "Server error"
         [] route = "seed" /\ status = 200 -> "Sample products added successfully"
         [] route = "seed" /\ status = 500 -> "Error seeding products"
         [] route = "global" /\ status = 500 -> "Something went wrong!"
         [] OTHER -> NoText
  ELSE CASE route = "products" /\ status = 500 -> "Internal server error"
         [] route = "product" /\ status = 404 -> "Product not found"
         [] route = "product" /\ status = 500 -> "Error fetching product"
         [] route = "order" /\ status = 200 -> "Order created successfully!"
         [] route = "order" /\ status = 400 -> "Please provide customer info, products, and total amount"
         [] route = "orders" /\ status = 404 -> "Route not found"
         [] route = "contact" /\ status = 400 -> "Please provide name, email, and message"
         [] route = "contact" /\ status = 200 -> "Thank you for your message! We will get back to you soon."
         [] route = "seed" /\ status = 503 -> "Database not connected. Please set MONGODB_URI environment variable."
         [] route = "seed" /\ status = 200 -> "Sample products added to database successfully!"
         [] route = "seed" /\ status = 500 -> "Error seeding products"
         [] OTHER -> NoText

\* res.json / res.status(..).json calls of a handler that ended with status
Sent(status) == IF status = 0 THEN 0 ELSE 1

\* the last answer of GET /api/products, with the request and the store
\* state it was computed in
ListResponse(status, success, source, prods, q, fault) ==
  [status |-> status, success |-> success, source |-> source,
   count |-> Len(prods), products |-> prods, query |-> q, fault |-> fault,
   message |-> Message("products", status),
   error |-> IF status = 500 THEN CatchError(fault) ELSE NoText,
   responses |-> Sent(status),
   wasConnected |-> connected, storeSize |-> Cardinality(products)]

NoListResp ==
  [status |-> 0, success |-> FALSE, source |-> "", count |-> 0,
   products |-> <<>>, query |-> NoQuery, fault |-> "none",
   message |-> NoText, error |-> NoText, responses |-> 0,
   wasConnected |-> FALSE, storeSize |-> 0]

\* await Product.find(...) rejects: the catch block of GET /api/products
\* answers 500, success false
ListError(q, fault) ==
  Rejected("Product.find", ListResponse(500, FALSE, "", <<>>, q, fault),
                           ListResponse(0, FALSE, "", <<>>, q, fault))

\* the fault of a store call that cannot return: no connection, or a failure
CallFaults == IF connected THEN {"store"} ELSE {"timeout"}

(* ------------------------- GET /api/products --------------------------- *)
\* server.js: Product.find(query).sort(sortOption).limit(productsLimit)
GetProductsServer(q) ==
  /\ variant = "server"
  /\ running
  /\ \/ \E f \in CallFaults : listResp' = ListError(q, f)
     \/ /\ connected
        /\ \E s \in SortedSeqs({d \in products : MatchesQuery(d, q)},
                               SortField(q.sort), SortDir(q.sort)) :
             listResp' = ListResponse(200, TRUE, "",
                                      Limited(s, ProductsLimit(q.limit)), q, "none")
  /\ running' = ~Unhandled(listResp')
  /\ UNCHANGED <<variant, nodeEnv, ordersResp, connected, clock, nextOid, products, orders, contacts,
                 itemResp, seedReq, orderReq, contactResp>>

\* part_000: database first, the sample list second; req.query is not read
GetProductsPart000(q) ==
  /\ variant = "part000"
  /\ running
  /\ \/ \* readyState is 1 and Product.find() throws
        /\ connected
        /\ listResp' = ListError(q, "store")
     \/ /\ connected
        /\ products # {}
        /\ listResp' = ListResponse(200, TRUE, "database",
                                    NaturalOrder(products), q, "none")
     \/ /\ ~connected \/ products = {}
        /\ listResp' = ListResponse(200, TRUE, "sample data",
                                    listSampleProducts, q, "none")
  /\ running' = ~Unhandled(listResp')
  /\ UNCHANGED <<variant, nodeEnv, ordersResp, connected, clock, nextOid, products, orders, contacts,
                 itemResp, seedReq, orderReq, contactResp>>

(* ----------------------- GET /api/products/:id ------------------------- *)
\* the ids requests ask for: sample ids, a text that is no id of anything,
\* ids of stored documents and a well-formed id of no document
UnknownOid == Oid(99)
ItemIds == {StrId(1), StrId(2), StrId(3), StrId(7), Oid(0), Oid(1), UnknownOid}

\* the last answer of GET /api/products/:id; product is <<>> or <<doc>>
ItemResponse(status, success, source, prod, id, fault) ==
  [status |-> status, success |-> success, source |-> source,
   product |-> prod, id |-> id, fault |-> fault,
   message |-> Message("product", status),
   error |-> IF status = 500 THEN CatchError(fault) ELSE NoText,
   responses |-> Sent(status),
   wasConnected |-> connected, inStore |-> \E d \in products : d._id = id]

NoItemResp ==
  [status |-> 0, success |-> FALSE, source |-> "", product |-> <<>>,
   id |-> StrId(0), fault |-> "none", message |-> NoText, error |-> NoText,
   responses |-> 0, wasConnected |-> FALSE, inStore |-> FALSE]

\* await Product.findById(id) rejects: the catch block answers 500
ItemError(id, fault) ==
  Rejected("Product.findById", ItemResponse(500, FALSE, "", <<>>, id, fault),
                               ItemResponse(0, FALSE, "", <<>>, id, fault))

\* Product.findById(id): the fault, or "none" with the documents found
FindByIdFaults(id) ==
  IF ~connected THEN {"timeout"}
  ELSE IF ~IsObjectId(id) THEN {"cast"}
  ELSE {"none", "store"}

FindById(id) == {d \in products : d._id = id}

\* Array.prototype.find over a sample list
FindSample(list, id) == {d \in Range(list) : d._id = id}

\* server.js: the store only
GetProductServer(id) ==
  /\ variant = "server"
  /\ running
  /\ \E f \in FindByIdFaults(id) :
       IF f # "none"
       THEN itemResp' = ItemError(id, f)
       ELSE IF FindById(id) = {}
            THEN itemResp' = ItemResponse(404, FALSE, "", <<>>, id, f)
            ELSE \E d \in FindById(id) :
                   itemResp' = ItemResponse(200, TRUE, "", <<d>>, id, f)
  /\ running' = ~Unhandled(itemResp')
  /\ UNCHANGED <<variant, nodeEnv, ordersResp, connected, clock, nextOid, products, orders, contacts,
                 listResp, seedReq, orderReq, contactResp>>

\* the part of the part_000 handler after the store lookup
SampleLookup(id) ==
  IF FindSample(itemSampleProducts, id) = {}
  THEN itemResp' = ItemResponse(404, FALSE, "", <<>>, id, "none")
  ELSE \E d \in FindSample(itemSampleProducts, id) :
         itemResp' = ItemResponse(200, TRUE, "sample data", <<d>>, id, "none")

\* part_000: the store when readyState is 1, then the two-item sample list
GetProductPart000(id) ==
  /\ variant = "part000"
  /\ running
  /\ IF connected
     THEN \E f \in FindByIdFaults(id) :
            IF f # "none"
            THEN itemResp' = ItemError(id, f)
            ELSE IF FindById(id) # {}
                 THEN \E d \in FindById(id) :
                        itemResp' = ItemResponse(200, TRUE, "", <<d>>, id, f)
                 ELSE SampleLookup(id)
     ELSE SampleLookup(id)
  /\ running' = ~Unhandled(itemResp')
  /\ UNCHANGED <<variant, nodeEnv, ordersResp, connected, clock, nextOid, products, orders, contacts,
                 listResp, seedReq, orderReq, contactResp>>

(* --------------------------- the connection ---------------------------- *)
\* mongoose.connect resolves, or the driver reconnects: readyState becomes 1
Connect ==
  /\ ~connected
  /\ connected' = TRUE
  /\ UNCHANGED <<variant, nodeEnv, running, ordersResp, clock, nextOid, products, orders, contacts, listResp,
                 itemResp, seedReq, orderReq, contactResp>>

\* the connection drops
Disconnect ==
  /\ connected
  /\ connected' = FALSE
  /\ UNCHANGED <<variant, nodeEnv, running, ordersResp, clock, nextOid, products, orders, contacts, listResp,
                 itemResp, seedReq, orderReq, contactResp>>

\* Date.now() moves on
Tick ==
  /\ clock < MaxClock
  /\ clock' = clock + 1
  /\ UNCHANGED <<variant, nodeEnv, running, ordersResp, connected, nextOid, products, orders, contacts, listResp,
                 itemResp, seedReq, orderReq, contactResp>>

(* ---------------------- POST /api/seed-products ------------------------ *)
\* One request: pc is where the handler stands ("idle": not sent yet,
\* "delete": awaiting deleteMany, "insert": awaiting insertMany, "done":
\* answered); ops are the store calls it has issued.  Kept for the claims:
\* wasConnected (readyState was 1 when the request arrived), before (the
\* collection then), after (the collection when insertMany returned) and
\* alone (no other seed request was in flight at any time of this one).
SeedIdle == [pc |-> "idle", status |-> 0, success |-> FALSE, count |-> 0,
             fault |-> "none", message |-> NoText, error |-> NoText,
             responses |-> 0, ops |-> <<>>, alone |-> TRUE, before |-> {},
             after |-> {}, wasConnected |-> FALSE]

SeedReqs == 1..MaxSeedReqs

InFlight(r) == seedReq[r].pc \in {"delete", "insert"}

\* Product.deleteMany({}): every document goes
DeleteManyKeepsAll(coll) == coll
DeleteMany(coll) == {}

\* Product.insertMany(sampleProducts): the collection afterwards
InsertMany(coll, list, from, now) == coll \cup Range(InsertedDocs(list, from, now))

\* part_000 only: if (mongoose.connection.readyState !== 1) return 503
SeedRefusedWithoutStore == variant = "part000" /\ ~connected

\* the request arrives; unless refused, deleteMany({}) is issued
SeedStart(r) ==
  /\ seedReq[r].pc = "idle"
  /\ \A r2 \in SeedReqs : r2 < r => seedReq[r2].pc # "idle"
  /\ running
  /\ LET others == {r2 \in SeedReqs \ {r} : InFlight(r2)}
         arrived == [seedReq[r] EXCEPT !.wasConnected = connected,
                                       !.before = products]
     IN IF SeedRefusedWithoutStore
        THEN seedReq' = [seedReq EXCEPT ![r] =
                           [arrived EXCEPT !.pc = "done", !.status = 503,
                                           !.message = Message("seed", 503),
                                           !.responses = @ + 1]]
        ELSE seedReq' =
               [r2 \in SeedReqs |->
                  IF r2 = r
                  THEN [arrived EXCEPT !.pc = "delete", !.ops = <<"deleteMany">>,
                                       !.alone = (others = {})]
                  ELSE IF r2 \in others
                       THEN [seedReq[r2] EXCEPT !.alone = FALSE]
                       ELSE seedReq[r2]]
  /\ running' = ~Unhandled(seedReq'[r])
  /\ UNCHANGED <<variant, nodeEnv, ordersResp, connected, clock, nextOid, products, orders, contacts,
                 listResp, itemResp, orderReq, contactResp>>

\* an awaited call of the handler rejects: the catch block answers 500
\* "Error seeding products"
SeedFailed(r, site, f) ==
  /\ seedReq' =
       Rejected(site,
                [seedReq EXCEPT ![r].pc = "done", ![r].status = 500,
                                ![r].fault = f,
                                ![r].message = Message("seed", 500),
                                ![r].error = CatchError(f),
                                ![r].responses = @ + 1],
                [seedReq EXCEPT ![r].pc = "done", ![r].fault = f])
  /\ UNCHANGED <<products, nextOid>>

\* await Product.deleteMany({}) ends; on success insertMany is issued
SeedDelete(r) ==
  /\ seedReq[r].pc = "delete"
  /\ running
  /\ \/ \E f \in CallFaults : SeedFailed(r, "Product.deleteMany", f)
     \/ /\ connected
        /\ products' = DeleteMany(products)
        /\ seedReq' = [seedReq EXCEPT ![r].pc = "insert",
                                      ![r].ops = Append(@, "insertMany")]
        /\ UNCHANGED nextOid
  /\ running' = ~Unhandled(seedReq'[r])
  /\ UNCHANGED <<variant, nodeEnv, ordersResp, connected, clock, orders, contacts,
                 listResp, itemResp, orderReq, contactResp>>

\* await Product.insertMany(sampleProducts) ends; on success the handler
\* answers 200 with count: products.length
SeedInsert(r) ==
  /\ seedReq[r].pc = "insert"
  /\ running
  /\ \/ \E f \in CallFaults : SeedFailed(r, "Product.insertMany", f)
     \/ /\ connected
        /\ products' = InsertMany(products, seedSampleProducts, nextOid, clock)
        /\ nextOid' = nextOid + Len(seedSampleProducts)
        /\ seedReq' = [seedReq EXCEPT ![r].pc = "done", ![r].status = 200,
                                      ![r].success = TRUE,
                                      ![r].message = Message("seed", 200),
                                      ![r].responses = @ + 1,
                                      ![r].count = Len(seedSampleProducts),
                                      ![r].after = products']
  /\ running' = ~Unhandled(seedReq'[r])
  /\ UNCHANGED <<variant, nodeEnv, ordersResp, connected, clock, orders, contacts,
                 listResp, itemResp, orderReq, contactResp>>

(* -------------------------- POST /api/orders --------------------------- *)
\* A text is a sequence of characters; "" is <<>>.
DigitChar == <<"0", "1", "2", "3", "4", "5", "6", "7", "8", "9">>

\* the decimal numeral of n, as a template literal or "+" prints a number
RECURSIVE Digits(_)
Digits(n) ==
  IF n < 10 THEN <<DigitChar[n + 1]>>
  ELSE Digits(n \div 10) \o <<DigitChar[(n % 10) + 1]>>

\* `SH${Date.now()}${count + 1}`
GeneratedOrderNumberWithoutCount(now, count) == <<"S", "H">> \o Digits(now)
GeneratedOrderNumber(now, count) == <<"S", "H">> \o Digits(now) \o Digits(count + 1)

\* "ORD" + Date.now()
GeneratedOrderId(now) == <<"O", "R", "D">> \o Digits(now)

\* one line item of a request body: productId, name, quantity, price and
\* the optional image, size and color
LineItem == [productId |-> Oid(1), name |-> "Men's Premium Blazer", quantity |-> 1,
             price |-> 8999, image |-> "blazer.jpg", size |-> "M", color |-> "Navy"]

\* req.body.  customerInfo: "absent" or "full" (an object with its seven
\* fields); products: hasProducts says whether the field is there, products
\* is its list; totalAmount likewise; orderNumber: <<>> when the body has
\* none.
BodyShapes ==
  {b \in [customerInfo : {"absent", "full"},
          hasProducts : BOOLEAN, products : {<<>>, <<LineItem>>},
          hasTotal : BOOLEAN, totalAmount : {0, 8999},
          orderNumber : {<<>>, <<"X", "1">>}] :
     /\ ~b.hasProducts => b.products = <<>>
     /\ b.hasTotal <=> b.totalAmount # 0}

\* the complete body of an order for one blazer
GoodBody == [customerInfo |-> "full", hasProducts |-> TRUE, products |-> <<LineItem>>,
             hasTotal |-> TRUE, totalAmount |-> 8999, orderNumber |-> <<>>]

\* the requests of the model: the complete body and the bodies that differ
\* from it in one field
OrderBodies ==
  {b \in BodyShapes :
     Cardinality({f \in {"customerInfo", "products", "totalAmount", "orderNumber"} :
                    IF f = "products"
                    THEN b.hasProducts # GoodBody.hasProducts \/ b.products # GoodBody.products
                    ELSE IF f = "totalAmount"
                    THEN b.hasTotal # GoodBody.hasTotal \/ b.totalAmount # GoodBody.totalAmount
                    ELSE b[f] # GoodBody[f]}) <= 1}

NoBody == [customerInfo |-> "absent", hasProducts |-> FALSE, products |-> <<>>,
           hasTotal |-> FALSE, totalAmount |-> 0, orderNumber |-> <<>>]

\* One request: pc is where the handler stands ("idle": not sent yet;
\* server.js: "count" awaiting countDocuments in the pre-save hook, "stamp"
\* the hook resumes, "insert" awaiting the insert of save(), "populate"
\* awaiting populate; "done": answered).  orderNumber is that of the
\* document in memory, generated the number of times the hook set it, count
\* and stampedAt what the hook read from countDocuments() and Date.now().
OrderIdle == [pc |-> "idle", body |-> NoBody, count |-> 0, orderNumber |-> <<>>,
              generated |-> 0, orderId |-> <<>>, persisted |-> FALSE,
              status |-> 0, success |-> FALSE, fault |-> "none",
              message |-> NoText, error |-> NoText, responses |-> 0,
              stampedAt |-> 0]

OrderReqs == 1..MaxOrderReqs

\* orderSchema's validators on new Order(req.body): the seven customerInfo
\* fields and totalAmount are required; products is an array (absent: [])
\* whose items need productId, name, quantity >= 1 and price.
OrderSchemaValidNoTotal(b) ==
  /\ b.customerInfo = "full"
  /\ \A i \in 1..Len(b.products) : b.products[i].quantity >= 1
OrderSchemaValid(b) ==
  /\ b.customerInfo = "full"
  /\ b.hasTotal
  /\ \A i \in 1..Len(b.products) : b.products[i].quantity >= 1

\* part_000: !customerInfo || !products || !totalAmount  (an object and an
\* array, even empty, are truthy; an absent field and 0 are falsy)
Part000OrderRejected(b) ==
  \/ b.customerInfo = "absent"
  \/ ~b.hasProducts
  \/ ~b.hasTotal \/ b.totalAmount = 0

\* part_000: validate, then acknowledge; nothing is stored
PostOrderPart000(r, b) ==
  /\ variant = "part000"
  /\ orderReq[r].pc = "idle"
  /\ \A r2 \in OrderReqs : r2 < r => orderReq[r2].pc # "idle"
  /\ running
  /\ IF Part000OrderRejected(b)
     THEN orderReq' = [orderReq EXCEPT ![r] =
                         [@ EXCEPT !.pc = "done", !.body = b, !.status = 400,
                                   !.fault = "validation",
                                   !.message = Message("order", 400),
                                   !.responses = @ + 1]]
     ELSE orderReq' = [orderReq EXCEPT ![r] =
                         [@ EXCEPT !.pc = "done", !.body = b, !.status = 200,
                                   !.success = TRUE,
                                   !.message = Message("order", 200),
                                   !.responses = @ + 1,
                                   !.orderId = GeneratedOrderId(clock)]]
  /\ running' = ~Unhandled(orderReq'[r])
  /\ UNCHANGED <<variant, nodeEnv, ordersResp, connected, clock, nextOid, products, orders, contacts,
                 listResp, itemResp, seedReq, contactResp>>

\* an awaited call of the server.js handler rejects: the catch block
\* answers 400 "Bad request" for every error; the document in memory goes
\* with the request
OrderFailed(r, site, f) ==
  orderReq' =
    Rejected(site,
             [orderReq EXCEPT ![r].pc = "done", ![r].status = 400, ![r].fault = f,
                              ![r].message = Message("order", 400),
                              ![r].error = CatchError(f),
                              ![r].responses = @ + 1,
                              ![r].orderNumber = <<>>, ![r].generated = 0,
                              ![r].count = 0, ![r].stampedAt = 0],
             [orderReq EXCEPT ![r].pc = "done", ![r].fault = f,
                              ![r].orderNumber = <<>>, ![r].generated = 0,
                              ![r].count = 0, ![r].stampedAt = 0])

\* server.js: new Order(req.body); order.save() validates, then runs the
\* pre-save hook: if (!this.orderNumber) countDocuments() is issued
PostOrderServer(r, b) ==
  /\ variant = "server"
  /\ orderReq[r].pc = "idle"
  /\ \A r2 \in OrderReqs : r2 < r => orderReq[r2].pc # "idle"
  /\ running
  /\ IF ~OrderSchemaValid(b)
     THEN orderReq' = [orderReq EXCEPT ![r] =
                         [@ EXCEPT !.pc = "done", !.body = b, !.status = 400,
                                   !.fault = "validation",
                                   !.message = Message("order", 400),
                                   !.error = CatchError("validation"),
                                   !.responses = @ + 1]]
     ELSE orderReq' = [orderReq EXCEPT ![r] =
                         [@ EXCEPT !.body = b, !.orderNumber = b.orderNumber,
                                   !.pc = IF b.orderNumber = <<>>
                                          THEN "count" ELSE "insert"]]
  /\ running' = ~Unhandled(orderReq'[r])
  /\ UNCHANGED <<variant, nodeEnv, ordersResp, connected, clock, nextOid, products, orders, contacts,
                 listResp, itemResp, seedReq, contactResp>>

\* const count = await Order.countDocuments()
HookCount(r) ==
  /\ orderReq[r].pc = "count"
  /\ running
  /\ \/ \E f \in CallFaults : OrderFailed(r, "order.save", f)
     \/ /\ connected
        /\ orderReq' = [orderReq EXCEPT ![r].pc = "stamp",
                                        ![r].count = Cardinality(orders)]
  /\ running' = ~Unhandled(orderReq'[r])
  /\ UNCHANGED <<variant, nodeEnv, ordersResp, connected, clock, nextOid, products, orders, contacts,
                 listResp, itemResp, seedReq, contactResp>>

\* this.orderNumber = `SH${Date.now()}${count + 1}`; next(): the insert is issued
HookStamp(r) ==
  /\ orderReq[r].pc = "stamp"
  /\ running
  /\ orderReq' = [orderReq EXCEPT ![r].pc = "insert",
                                  ![r].orderNumber =
                                     GeneratedOrderNumber(clock, orderReq[r].count),
                                  ![r].generated = @ + 1,
                                  ![r].stampedAt = clock]
  /\ running' = ~Unhandled(orderReq'[r])
  /\ UNCHANGED <<variant, nodeEnv, ordersResp, connected, clock, nextOid, products, orders, contacts,
                 listResp, itemResp, seedReq, contactResp>>

\* the ObjectId of the document of request r
OrderOid(r) == Oid(100 + r)

\* the document save() writes: schema defaults for status and paymentStatus
OrderDocument(r) ==
  [_id |-> OrderOid(r), req |-> r, orderNumber |-> orderReq[r].orderNumber,
   generated |-> orderReq[r].generated,
   customerInfo |-> orderReq[r].body.customerInfo,
   products |-> orderReq[r].body.products,
   totalAmount |-> orderReq[r].body.totalAmount,
   status |-> "pending", paymentStatus |-> "pending", createdAt |-> clock]

\* orderNumber: { unique: true }: the index refuses a second document with
\* the same orderNumber (E11000)
DuplicateOrderNumber(n) == \E o \in orders : o.orderNumber = n

\* the insert of save() ends; then populate('products.productId') is issued
SaveInsert(r) ==
  /\ orderReq[r].pc = "insert"
  /\ running
  /\ \/ /\ \E f \in CallFaults : OrderFailed(r, "order.save", f)
        /\ UNCHANGED orders
     \/ /\ connected
        /\ IF DuplicateOrderNumber(orderReq[r].orderNumber)
           THEN OrderFailed(r, "order.save", "duplicate") /\ UNCHANGED orders
           ELSE /\ orders' = orders \cup {OrderDocument(r)}
                /\ orderReq' = [orderReq EXCEPT ![r].pc = "populate",
                                                ![r].persisted = TRUE]
  /\ running' = ~Unhandled(orderReq'[r])
  /\ UNCHANGED <<variant, nodeEnv, ordersResp, connected, clock, nextOid, products, contacts,
                 listResp, itemResp, seedReq, contactResp>>

\* await savedOrder.populate(...) ends; res.status(201)
SavePopulate(r) ==
  /\ orderReq[r].pc = "populate"
  /\ running
  /\ \/ \E f \in CallFaults : OrderFailed(r, "savedOrder.populate", f)
     \/ /\ connected
        /\ orderReq' = [orderReq EXCEPT ![r].pc = "done", ![r].status = 201,
                                        ![r].success = TRUE,
                                        ![r].message = Message("order", 201),
                                        ![r].responses = @ + 1]
  /\ running' = ~Unhandled(orderReq'[r])
  /\ UNCHANGED <<variant, nodeEnv, ordersResp, connected, clock, nextOid, products, orders, contacts,
                 listResp, itemResp, seedReq, contactResp>>

(* ------------------ GET /api/orders, GET /api/orders/:id ---------------- *)
\* req.query.email ("": none); the email of a full customerInfo
EmailParams == {"", "nobody@example.com"}
CustomerEmail == "jane@example.com"

\* the ids GET /api/orders/:id is asked for
OrderIds == {OrderOid(r) : r \in OrderReqs} \cup {UnknownOid, StrId(1)}

\* populate("products.productId") on one line item: productId becomes the
\* referenced Product document (<<doc>>), or null (<<>>) when there is
\* none; the other fields of the line item are not touched.
PopulateLineItemFromProduct(item) ==
  LET found == {d \in products : d._id = item.productId}
  IN IF found = {}
     THEN [item EXCEPT !.productId = <<>>, !.name = NoText, !.price = 0]
     ELSE LET d == CHOOSE x \in found : TRUE
          IN [item EXCEPT !.productId = <<d>>, !.name = d.name, !.price = d.price]
PopulateLineItem(item) ==
  LET found == {d \in products : d._id = item.productId}
  IN IF found = {}
     THEN [item EXCEPT !.productId = <<>>]
     ELSE [item EXCEPT !.productId = <<CHOOSE x \in found : TRUE>>]

Populate(o) ==
  [o EXCEPT !.products = [i \in 1..Len(o.products) |-> PopulateLineItem(o.products[i])]]

\* the last answer of GET /api/orders (route "list") or GET /api/orders/:id
\* (route "item"); orders: the (populated) documents it carries
OrdersResponse(route, status, success, os, fault) ==
  [route |-> route, status |-> status, success |-> success, count |-> Len(os),
   orders |-> os, fault |-> fault, message |-> Message("orders", status),
   error |-> IF status = 500 THEN CatchError(fault) ELSE NoText,
   responses |-> Sent(status)]

NoOrdersResp ==
  [route |-> "", status |-> 0, success |-> FALSE, count |-> 0, orders |-> <<>>,
   fault |-> "none", message |-> NoText, error |-> NoText, responses |-> 0]

\* an awaited call of the two handlers rejects: the catch block answers 500
OrdersError(route, site, fault) ==
  Rejected(site, OrdersResponse(route, 500, FALSE, <<>>, fault),
                 OrdersResponse(route, 0, FALSE, <<>>, fault))

\* server.js: Order.find(query).populate(...).sort({ createdAt: -1 })
GetOrders(email) ==
  /\ variant = "server"
  /\ running
  /\ \/ \E f \in CallFaults : ordersResp' = OrdersError("list", "Order.find", f)
     \/ /\ connected
        /\ \E s \in SortedSeqs({Populate(o) : o \in {x \in orders :
                                     email # "" => CustomerEmail = email}},
                               "createdAt", -1) :
             ordersResp' = OrdersResponse("list", 200, TRUE, s, "none")
  /\ running' = ~Unhandled(ordersResp')
  /\ UNCHANGED <<variant, nodeEnv, connected, clock, nextOid, products, orders,
                 contacts, listResp, itemResp, seedReq, orderReq, contactResp>>

\* server.js: Order.findById(req.params.id).populate(...)
GetOrder(id) ==
  /\ variant = "server"
  /\ running
  /\ \E f \in FindByIdFaults(id) :
       IF f # "none"
       THEN ordersResp' = OrdersError("item", "Order.findById", f)
       ELSE IF \A o \in orders : o._id # id
            THEN ordersResp' = OrdersResponse("item", 404, FALSE, <<>>, f)
            ELSE \E o \in {x \in orders : x._id = id} :
                   ordersResp' = OrdersResponse("item", 200, TRUE, <<Populate(o)>>, f)
  /\ running' = ~Unhandled(ordersResp')
  /\ UNCHANGED <<variant, nodeEnv, connected, clock, nextOid, products, orders,
                 contacts, listResp, itemResp, seedReq, orderReq, contactResp>>

\* part_000 has neither route: the request falls through to the 404 handler
GetOrdersPart000(route) ==
  /\ variant = "part000"
  /\ running
  /\ ordersResp' = OrdersResponse(route, 404, FALSE, <<>>, "none")
  /\ running' = ~Unhandled(ordersResp')
  /\ UNCHANGED <<variant, nodeEnv, connected, clock, nextOid, products, orders,
                 contacts, listResp, itemResp, seedReq, orderReq, contactResp>>

(* -------------------------- POST /api/contact -------------------------- *)
\* stored contact documents the model lets a run reach
MaxContacts == 2

\* req.body: which of the fields are there (and truthy)
ContactBodies ==
  [name : BOOLEAN, firstName : BOOLEAN, lastName : BOOLEAN,
   email : BOOLEAN, message : BOOLEAN]

NoContactBody == [name |-> FALSE, firstName |-> FALSE, lastName |-> FALSE,
                  email |-> FALSE, message |-> FALSE]

\* the last answer of POST /api/contact.  saved: "none" (no save was
\* tried), "ok" or "failed"; stored: the documents in the collection
\* before the request and after it.
ContactResponse(status, success, b, saved, fault, after) ==
  [status |-> status, success |-> success, body |-> b, saved |-> saved,
   fault |-> fault, message |-> Message("contact", status),
   error |-> IF status = 500 THEN CatchError(fault) ELSE NoText,
   responses |-> Sent(status),
   storedBefore |-> Len(contacts), storedAfter |-> Len(after)]

NoContactResp ==
  [status |-> 0, success |-> FALSE, body |-> NoContactBody, saved |-> "none",
   fault |-> "none", message |-> NoText, error |-> NoText, responses |-> 0,
   storedBefore |-> 0, storedAfter |-> 0]

\* server.js: !firstName || !lastName || !email || !message
ServerContactRejected(b) == ~b.firstName \/ ~b.lastName \/ ~b.email \/ ~b.message

\* part_000: !name || !email || !message
Part000ContactRejected(b) == ~b.name \/ ~b.email \/ ~b.message

\* server.js: await contact.save() rejects; the catch block answers 500
\* "Server error"
ContactSaveFailureAcknowledged(b, f) ==
  ContactResponse(200, TRUE, b, "failed", f, contacts)
ContactSaveFailure(b, f) ==
  Rejected("contact.save", ContactResponse(500, FALSE, b, "failed", f, contacts),
                           ContactResponse(0, FALSE, b, "failed", f, contacts))

\* server.js: validate, new Contact(...).save(), then acknowledge
PostContactServer(b) ==
  /\ variant = "server"
  /\ Len(contacts) < MaxContacts
  /\ running
  /\ IF ServerContactRejected(b)
     THEN /\ contactResp' = ContactResponse(400, FALSE, b, "none", "none", contacts)
          /\ UNCHANGED contacts
     ELSE \/ /\ \E f \in CallFaults : contactResp' = ContactSaveFailure(b, f)
             /\ UNCHANGED contacts
          \/ /\ connected
             /\ contacts' = Append(contacts, [body |-> b, status |-> "new"])
             /\ contactResp' = ContactResponse(200, TRUE, b, "ok", "none", contacts')
  /\ running' = ~Unhandled(contactResp')
  /\ UNCHANGED <<variant, nodeEnv, ordersResp, connected, clock, nextOid, products, orders,
                 listResp, itemResp, seedReq, orderReq>>

\* part_000: validate, console.log, acknowledge
PostContactPart000(b) ==
  /\ variant = "part000"
  /\ running
  /\ IF Part000ContactRejected(b)
     THEN contactResp' = ContactResponse(400, FALSE, b, "none", "none", contacts)
     ELSE contactResp' = ContactResponse(200, TRUE, b, "none", "none", contacts)
  /\ running' = ~Unhandled(contactResp')
  /\ UNCHANGED <<variant, nodeEnv, ordersResp, connected, clock, nextOid, products, orders, contacts,
                 listResp, itemResp, seedReq, orderReq>>

\* A POST /api/contact whose body is not JSON: express.json() passes the
\* parse error to next(err).  server.js: the global error handler answers
\* 500 and gives err.message only outside production.  part_000 registers no
\* error handler: Express's own answers with the error's status (400) and a
\* page that is no envelope, with the error's text only outside production.
PostContactBadJson ==
  /\ running
  /\ contactResp' =
       [ContactResponse(IF variant = "server" THEN 500 ELSE 400, FALSE,
                        NoContactBody, "none", "parse", contacts)
          EXCEPT !.message = IF variant = "server" THEN Message("global", 500)
                             ELSE NoText,
                 !.error = GlobalError("parse")]
  /\ running' = ~Unhandled(contactResp')
  /\ UNCHANGED <<variant, nodeEnv, ordersResp, connected, clock, nextOid, products,
                 orders, contacts, listResp, itemResp, seedReq, orderReq>>

(* ------------------------------- Init ---------------------------------- *)
Init ==
  /\ variant \in Variants
  /\ connected \in BOOLEAN
  /\ clock = Clock0
  /\ nodeEnv \in NodeEnvs
  /\ running = TRUE
  /\ nextOid = Len(seedSampleProducts) + 1
  /\ products \in InitialCatalogs
  /\ orders = {}
  /\ contacts = <<>>
  /\ listResp = NoListResp
  /\ itemResp = NoItemResp
  /\ seedReq = [r \in 1..MaxSeedReqs |-> SeedIdle]
  /\ orderReq = [r \in OrderReqs |-> OrderIdle]
  /\ contactResp = NoContactResp
  /\ ordersResp = NoOrdersResp

(* ------------------------ GET /api/products ---------------------------- *)
NextList ==
  \/ Connect
  \/ Disconnect
  \/ \E q \in Queries : GetProductsServer(q)
  \/ \E q \in Queries : GetProductsPart000(q)

SpecList == Init /\ [][NextList]_vars

(* ---------------------- GET /api/products/:id -------------------------- *)
NextItem ==
  \/ Connect
  \/ Disconnect
  \/ \E id \in ItemIds : GetProductServer(id)
  \/ \E id \in ItemIds : GetProductPart000(id)

SpecItem == Init /\ [][NextItem]_vars

(* ------------- GET /api/products and GET /api/products/:id ------------- *)
\* the list without parameters and the lookup of every id of the model
NextCatalog ==
  \/ Connect
  \/ Disconnect
  \/ GetProductsServer(NoQuery)
  \/ GetProductsPart000(NoQuery)
  \/ \E id \in ItemIds : GetProductServer(id)
  \/ \E id \in ItemIds : GetProductPart000(id)

SpecCatalog == Init /\ [][NextCatalog]_vars

(* ---------------------- POST /api/seed-products ------------------------ *)
NextSeed ==
  \/ Connect
  \/ Disconnect
  \/ Tick
  \/ \E r \in SeedReqs : SeedStart(r)
  \/ \E r \in SeedReqs : SeedDelete(r)
  \/ \E r \in SeedReqs : SeedInsert(r)

\* the seed route does not read NODE_ENV
InitSeed == Init /\ nodeEnv = "development"

SpecSeed == InitSeed /\ [][NextSeed]_vars

(* -------------------------- POST /api/orders --------------------------- *)
\* every body of the model; the clock stands still (it is read only to
\* build identifiers, see SpecOrderNumbers)
NextOrders ==
  \/ Connect
  \/ Disconnect
  \/ \E r \in OrderReqs, b \in OrderBodies : PostOrderPart000(r, b)
  \/ \E r \in OrderReqs, b \in OrderBodies : PostOrderServer(r, b)
  \/ \E r \in OrderReqs : HookCount(r)
  \/ \E r \in OrderReqs : HookStamp(r)
  \/ \E r \in OrderReqs : SaveInsert(r)
  \/ \E r \in OrderReqs : SavePopulate(r)

\* the order routes read neither the product collection nor NODE_ENV
InitOrders == Init /\ products = {} /\ nodeEnv = "development"

SpecOrders == InitOrders /\ [][NextOrders]_vars

(* ------------ POST /api/orders: the identifiers of the orders ---------- *)
\* complete bodies, while the clock moves on
NextOrderNumbers ==
  \/ Connect
  \/ Disconnect
  \/ Tick
  \/ \E r \in OrderReqs : PostOrderPart000(r, GoodBody)
  \/ \E r \in OrderReqs : PostOrderServer(r, GoodBody)
  \/ \E r \in OrderReqs : HookCount(r)
  \/ \E r \in OrderReqs : HookStamp(r)
  \/ \E r \in OrderReqs : SaveInsert(r)
  \/ \E r \in OrderReqs : SavePopulate(r)

SpecOrderNumbers == InitOrders /\ [][NextOrderNumbers]_vars

(* -------------------------- POST /api/contact -------------------------- *)
NextContact ==
  \/ Connect
  \/ Disconnect
  \/ \E b \in ContactBodies : PostContactServer(b)
  \/ \E b \in ContactBodies : PostContactPart000(b)
  \/ PostContactBadJson

\* the contact route does not read the product collection
InitContact == Init /\ products = {}

SpecContact == InitContact /\ [][NextContact]_vars

(* ------------------- orders read back after reseeds -------------------- *)
\* orders created before they are read back
MaxHistoryOrders == 1
HistoryReqs == {r \in OrderReqs : r <= MaxHistoryOrders}

\* complete orders are created and read back while the catalogue is reseeded
NextHistory ==
  \/ Connect
  \/ Disconnect
  \/ \E r \in HistoryReqs : PostOrderServer(r, GoodBody)
  \/ \E r \in HistoryReqs : HookCount(r)
  \/ \E r \in HistoryReqs : HookStamp(r)
  \/ \E r \in HistoryReqs : SaveInsert(r)
  \/ \E r \in HistoryReqs : SavePopulate(r)
  \/ SeedStart(1)
  \/ SeedDelete(1)
  \/ SeedInsert(1)
  \/ \E email \in EmailParams : GetOrders(email)
  \/ \E id \in OrderIds : GetOrder(id)

\* server.js with a seeded catalogue: the product the line item refers to
\* is in the store
InitHistory ==
  /\ Init
  /\ variant = "server"
  /\ nodeEnv = "development"
  /\ products = Range(InsertedDocs(seedSampleProducts, 1, 1))

SpecHistory == InitHistory /\ [][NextHistory]_vars

(* -------------- error handling: list, order creation, parse ------------ *)
\* the complete contact body of the two iterations
FullContactBody == [name |-> TRUE, firstName |-> TRUE, lastName |-> TRUE,
                    email |-> TRUE, message |-> TRUE]

\* GET /api/products without parameters, POST /api/orders with complete
\* bodies and requests with a malformed body, over a connection that comes
\* and goes
NextServe ==
  \/ Connect
  \/ Disconnect
  \/ GetProductsServer(NoQuery)
  \/ GetProductsPart000(NoQuery)
  \/ \E r \in OrderReqs : PostOrderPart000(r, GoodBody)
  \/ \E r \in OrderReqs : PostOrderServer(r, GoodBody)
  \/ \E r \in OrderReqs : HookCount(r)
  \/ \E r \in OrderReqs : HookStamp(r)
  \/ \E r \in OrderReqs : SaveInsert(r)
  \/ \E r \in OrderReqs : SavePopulate(r)
  \/ PostContactBadJson
  \/ \E route \in {"list", "item"} : GetOrdersPart000(route)

InitServe == Init /\ products = {}

SpecServe == InitServe /\ [][NextServe]_vars

(* ===================== claims about the catalogue ====================== *)
NonDecreasing(s, f) == \A i \in 1..Len(s) - 1 : s[i][f] <= s[i + 1][f]
NonIncreasing(s, f) == \A i \in 1..Len(s) - 1 : s[i][f] >= s[i + 1][f]

\* C1: whenever the store is not connected, or is connected and holds no
\* product, GET /api/products answers success:true with the fixed sample
\* list and a count above zero: never an error, never an empty list.  (An
\* answer to a store call that failed while connected is left aside.)
C1_FallbackWithoutCatalog ==
  (/\ listResp.status # 0
   /\ listResp.fault # "store"
   /\ ~listResp.wasConnected \/ listResp.storeSize = 0)
  => /\ listResp.success
     /\ listResp.status = 200
     /\ listResp.products = listSampleProducts
     /\ listResp.count > 0

\* C9: the list GET /api/products returns is the matching products in the
\* requested order, cut to the limit: non-decreasing prices for
\* sort=price_asc, non-increasing for sort=price_desc, at most n items for
\* limit=n.
C9_SortedAndLimited ==
  (listResp.status = 200 /\ listResp.success)
  => LET q == listResp.query
         l == listResp.products
     IN /\ \A i \in 1..Len(l) : MatchesQuery(l[i], q)
        /\ q.sort = "price_asc" => NonDecreasing(l, "price")
        /\ q.sort = "price_desc" => NonIncreasing(l, "price")
        /\ q.limit # "" => Len(l) <= ParseInt(q.limit)

\* the static sample list GET /api/products/:id can scan: server.js has none
StaticSampleIds ==
  IF variant = "part000" THEN {d._id : d \in Range(itemSampleProducts)} ELSE {}

\* C8: GET /api/products/:id looks the id up in the store; on a miss, or
\* without a connection, it scans the static sample list; it answers
\* NotFound only when the id is in neither, and otherwise returns the
\* product with that id.  (An answer to a store call that failed while
\* connected is left aside.)
C8_StoreThenSampleThenNotFound ==
  (itemResp.status # 0 /\ itemResp.fault # "store")
  => LET inStore == itemResp.wasConnected /\ itemResp.inStore
         inSample == itemResp.id \in StaticSampleIds
     IN IF ~inStore /\ ~inSample
        THEN itemResp.status = 404
        ELSE /\ itemResp.status = 200
             /\ itemResp.success
             /\ Len(itemResp.product) = 1
             /\ itemResp.product[1]._id = itemResp.id

\* C17: with no store connected, every product GET /api/products returns
\* from the sample list is returned by GET /api/products/:id for its id,
\* with the same field values.
C17_FallbackListFetchableById ==
  (/\ listResp.status = 200 /\ listResp.source = "sample data"
   /\ ~listResp.wasConnected
   /\ itemResp.status # 0 /\ ~itemResp.wasConnected
   /\ \E i \in 1..Len(listResp.products) : listResp.products[i]._id = itemResp.id)
  => /\ itemResp.status = 200
     /\ \E i \in 1..Len(listResp.products) :
          itemResp.product = <<listResp.products[i]>>

(* ======================== claims about the seed ======================== *)
\* C6: POST /api/seed-products that arrives while no store connection
\* exists is answered 503 after the connection check, and issues neither a
\* delete nor an insert to the store.
C6_SeedRefusedWithoutConnection ==
  \A r \in SeedReqs :
    (seedReq[r].pc # "idle" /\ ~seedReq[r].wasConnected)
    => /\ seedReq[r].ops = <<>>
       /\ seedReq[r].pc = "done"
       /\ seedReq[r].status = 503

\* the documents of coll that carry the fields of built-in product p
CopiesOf(p, coll) ==
  {d \in coll : /\ d.name = p.name /\ d.price = p.price /\ d.rating = p.rating
                /\ d.category = p.category /\ d.gender = p.gender}

\* C7: when POST /api/seed-products answers success and no other seed
\* request ran during it, the collection then holds exactly the built-in
\* list: no document from before the request, each built-in product once,
\* and the answer's count is the length of the built-in list.
C7_SeedReplacesCatalog ==
  \A r \in SeedReqs :
    (seedReq[r].pc = "done" /\ seedReq[r].success /\ seedReq[r].alone)
    => /\ seedReq[r].after \cap seedReq[r].before = {}
       /\ \A i \in 1..Len(seedSampleProducts) :
            Cardinality(CopiesOf(seedSampleProducts[i], seedReq[r].after)) = 1
       /\ Cardinality(seedReq[r].after) = Len(seedSampleProducts)
       /\ seedReq[r].count = Len(seedSampleProducts)

\* a seed that succeeded alone over a collection that held products
C7_Witness ==
  \E r \in SeedReqs :
    /\ seedReq[r].pc = "done" /\ seedReq[r].success /\ seedReq[r].alone
    /\ seedReq[r].before # {}

\* C16: when two or more POST /api/seed-products requests overlapped on a
\* connected store and all of them have answered success, the collection
\* holds each built-in product exactly once.
C16_ConcurrentSeedsLeaveOneCopy ==
  (/\ \A r \in SeedReqs : seedReq[r].pc = "done" /\ seedReq[r].success
   /\ \E r \in SeedReqs : ~seedReq[r].alone)
  => \A i \in 1..Len(seedSampleProducts) :
       Cardinality(CopiesOf(seedSampleProducts[i], products)) = 1

(* ======================= claims about the orders ======================= *)
Answered(r) == orderReq[r].pc = "done"
Created(r) == Answered(r) /\ orderReq[r].success
NothingStoredFor(r) == ~orderReq[r].persisted /\ \A o \in orders : o.req # r

\* C2: a POST /api/orders whose body has no totalAmount is answered with a
\* client error (400) and never reaches the store: no order document of
\* that request is written.
C2_NoTotalNoOrder ==
  \A r \in OrderReqs :
    (orderReq[r].pc # "idle" /\ ~orderReq[r].body.hasTotal)
    => /\ Answered(r)
       /\ orderReq[r].status = 400
       /\ ~orderReq[r].success
       /\ NothingStoredFor(r)

\* server.js refused a body that lacks only its totalAmount while the
\* store already held an order
C2_Witness ==
  \E r \in OrderReqs :
    /\ Answered(r)
    /\ orderReq[r].body = [GoodBody EXCEPT !.hasTotal = FALSE, !.totalAmount = 0]
    /\ variant = "server"
    /\ orders # {}

\* C3: a POST /api/orders whose body has no customerInfo, no products or an
\* empty products list is refused with a validation error before anything
\* is stored or acknowledged: it never yields a created order.
C3_CustomerAndProductsRequired ==
  \A r \in OrderReqs :
    (/\ orderReq[r].pc # "idle"
     /\ \/ orderReq[r].body.customerInfo = "absent"
        \/ ~orderReq[r].body.hasProducts
        \/ orderReq[r].body.products = <<>>)
    => /\ ~Created(r)
       /\ NothingStoredFor(r)
       /\ Answered(r) => orderReq[r].status = 400

\* the identifier a created order carries: orderNumber (server.js) or
\* orderId (part_000)
OrderIdentifier(r) ==
  IF variant = "server" THEN orderReq[r].orderNumber ELSE orderReq[r].orderId

\* C4: any two created orders carry different order identifiers, also when
\* they are created back to back.
C4_DistinctOrderIdentifiers ==
  \A r1, r2 \in OrderReqs :
    (r1 # r2 /\ Created(r1) /\ Created(r2))
    => OrderIdentifier(r1) # OrderIdentifier(r2)

\* C5: the orderNumber of a persisted order was generated by the pre-save
\* hook, once, when the order was first saved; the hook never overwrites an
\* orderNumber that is already set; no persisted order is without one.
C5_OrderNumberGeneratedOnce ==
  /\ \A o \in orders :
       /\ o.orderNumber # <<>>
       /\ o.generated = 1
  /\ \A r \in OrderReqs :
       (orderReq[r].pc \in {"insert", "populate"} /\ orderReq[r].body.orderNumber # <<>>)
       => orderReq[r].orderNumber = orderReq[r].body.orderNumber

(* ====================== claims about the contact ======================= *)
\* the fields the running iteration requires are all in the body
ContactComplete(b) ==
  IF variant = "server" THEN ~ServerContactRejected(b) ELSE ~Part000ContactRejected(b)

\* C10 as stated: a POST /api/contact with all required fields always gets
\* the success acknowledgment, whether or not the save succeeded.
C10_AlwaysAcknowledged ==
  (contactResp.status # 0 /\ ContactComplete(contactResp.body))
  => contactResp.success /\ contactResp.status = 200

\* C10 as amended: with all required fields, the request is acknowledged
\* (200, success) when no save is tried (part_000) or the save succeeds, in
\* which case exactly one document is added; when the save fails the answer
\* is 500 with success:false and nothing is added.
C10_AcknowledgedUnlessSaveFails ==
  (contactResp.status # 0 /\ ContactComplete(contactResp.body))
  => /\ contactResp.saved = "failed"
          => /\ contactResp.status = 500 /\ ~contactResp.success
             /\ contactResp.storedAfter = contactResp.storedBefore
     /\ contactResp.saved = "ok"
          => /\ contactResp.status = 200 /\ contactResp.success
             /\ contactResp.storedAfter = contactResp.storedBefore + 1
     /\ contactResp.saved = "none"
          => /\ contactResp.status = 200 /\ contactResp.success
             /\ contactResp.storedAfter = contactResp.storedBefore
             /\ variant = "part000"
     /\ variant = "part000" => contactResp.saved = "none"

\* a complete submission whose save failed
C10_Witness ==
  /\ contactResp.status # 0
  /\ ContactComplete(contactResp.body)
  /\ contactResp.saved = "failed"

\* C14: the pre-save hook computes SH, the clock it read and the count it
\* read plus one; so two order creations whose hooks read the same count
\* (before either order is written) and the clock in the same millisecond
\* hold the same generated orderNumber.
C14_SameReadsSameOrderNumber ==
  /\ \A r \in OrderReqs :
       (orderReq[r].generated = 1 /\ orderReq[r].pc \in {"insert", "populate", "done"}
          /\ orderReq[r].orderNumber # <<>>)
       => orderReq[r].orderNumber =
            <<"S", "H">> \o Digits(orderReq[r].stampedAt)
                         \o Digits(orderReq[r].count + 1)
  /\ \A r1, r2 \in OrderReqs :
       (/\ orderReq[r1].pc = "insert" /\ orderReq[r2].pc = "insert"
        /\ orderReq[r1].generated = 1 /\ orderReq[r2].generated = 1
        /\ orderReq[r1].count = orderReq[r2].count
        /\ orderReq[r1].stampedAt = orderReq[r2].stampedAt)
       => orderReq[r1].orderNumber = orderReq[r2].orderNumber

\* two orders in flight, neither written yet, with one generated orderNumber
C14_Witness ==
  \E r1, r2 \in OrderReqs :
    /\ r1 # r2
    /\ orderReq[r1].pc = "insert" /\ orderReq[r2].pc = "insert"
    /\ orderReq[r1].generated = 1 /\ orderReq[r2].generated = 1
    /\ ~orderReq[r1].persisted /\ ~orderReq[r2].persisted
    /\ orders = {}
    /\ orderReq[r1].orderNumber = orderReq[r2].orderNumber

\* C15: POST /api/orders answers with an error status only if the request
\* wrote no order: once the document is in the store, the answer is the
\* created envelope (201, success), also when the populate step fails.
C15_ErrorOnlyIfNothingPersisted ==
  \A r \in OrderReqs :
    (Answered(r) /\ orderReq[r].persisted)
    => /\ orderReq[r].status = 201
       /\ orderReq[r].success

(* ==================== claims about the order history =================== *)
\* the display fields a line item stores beside its product reference
DisplayFields(item) ==
  [name |-> item.name, price |-> item.price, quantity |-> item.quantity,
   image |-> item.image, size |-> item.size, color |-> item.color]

\* the line items of document o carry the display fields of the body its
\* request was created from
KeepsDisplayFields(o) ==
  LET sent == orderReq[o.req].body.products
  IN /\ Len(o.products) = Len(sent)
     /\ \A i \in 1..Len(sent) :
          DisplayFields(o.products[i]) = DisplayFields(sent[i])

\* C13: the display fields (name, price, quantity, image, size, color) of
\* the line items of every persisted order stay those stored at creation,
\* in the store and in every answer of GET /api/orders and
\* GET /api/orders/:id, whatever happened to the products since (a reseed
\* that deleted the referenced product included).
C13_LineItemsKeepDisplayFields ==
  /\ \A o \in orders : KeepsDisplayFields(o)
  /\ ordersResp.status = 200
       => \A k \in 1..Len(ordersResp.orders) :
            KeepsDisplayFields(ordersResp.orders[k])

\* an order read back after a reseed deleted the product its line item
\* refers to: the reference populates to null
C13_Witness ==
  /\ ordersResp.status = 200
  /\ \E k \in 1..Len(ordersResp.orders) :
       \E i \in 1..Len(ordersResp.orders[k].products) :
         ordersResp.orders[k].products[i].productId = <<>>
  /\ \E r \in SeedReqs :
       /\ seedReq[r].pc = "done" /\ seedReq[r].success
       /\ \E d \in seedReq[r].before : d._id = LineItem.productId

(* =================== claims about the error handling =================== *)
\* the answer to a request one of whose store calls failed: one response,
\* an error status, success:false and a message
FailureAnswered(rec) ==
  rec.fault \in StoreFaults
  => /\ rec.responses = 1
     /\ rec.status >= 400
     /\ ~rec.success
     /\ rec.message # NoText

\* C11: for every route handler and every failure of a store call made by
\* it, the request ends with exactly one response, an envelope with
\* success:false and a message; no request is answered twice; no rejection
\* goes unhandled, the process keeps running and the next GET /api/products
\* is served.
C11_StoreFailuresAnswered ==
  /\ FailureAnswered(listResp) /\ listResp.responses <= 1
  /\ FailureAnswered(itemResp) /\ itemResp.responses <= 1
  /\ FailureAnswered(ordersResp) /\ ordersResp.responses <= 1
  /\ FailureAnswered(contactResp) /\ contactResp.responses <= 1
  /\ \A r \in SeedReqs :
       /\ FailureAnswered(seedReq[r]) /\ seedReq[r].responses <= 1
       /\ seedReq[r].fault \in StoreFaults => seedReq[r].pc = "done"
       /\ seedReq[r].pc = "done" <=> seedReq[r].responses = 1
  /\ \A r \in OrderReqs :
       /\ FailureAnswered(orderReq[r]) /\ orderReq[r].responses <= 1
       /\ orderReq[r].fault \in StoreFaults => orderReq[r].pc = "done"
       /\ orderReq[r].pc = "done" <=> orderReq[r].responses = 1
  /\ running
  /\ ENABLED (GetProductsServer(NoQuery) \/ GetProductsPart000(NoQuery))

\* an order was written, its populate step failed and was answered by the
\* catch block, and GET /api/products has been served
C11_Witness ==
  /\ \E r \in OrderReqs :
       /\ orderReq[r].persisted
       /\ orderReq[r].fault \in StoreFaults
       /\ orderReq[r].responses = 1
  /\ listResp.status = 200

\* C12: in an environment tagged production, the response to a request one
\* of whose store calls failed does not carry the text of the error.
C12_NoErrorTextInProduction ==
  nodeEnv = "production"
  => /\ listResp.fault \in StoreFaults => listResp.error = NoText
     /\ itemResp.fault \in StoreFaults => itemResp.error = NoText
     /\ ordersResp.fault \in StoreFaults => ordersResp.error = NoText
     /\ contactResp.fault \in StoreFaults => contactResp.error = NoText
     /\ \A r \in SeedReqs :
          seedReq[r].fault \in StoreFaults => seedReq[r].error = NoText
     /\ \A r \in OrderReqs :
          orderReq[r].fault \in StoreFaults => orderReq[r].error = NoText

====
